---- MODULE Spec2Model ----
(***************************************************************************)
(* The ERC20 HODL subgraph: the Transfer handler that maintains User and   *)
(* HourObservation entities (src/mapping.ts) and the client-side query     *)
(* helpers that read them back (tests/handleTransfer.test.ts).             *)
(*                                                                         *)
(* The entity store is modelled as two finite maps, id -> entity.  An      *)
(* entity object obtained with load() is a private copy: changing it has   *)
(* no effect on the store, or on another copy of the same entity, until    *)
(* save() writes the whole object back.                                    *)
(***************************************************************************)
EXTENDS Integers, Sequences, FiniteSets, TLC

\* ------------------------------------------------------------------------
\* Constants of the program
\* ------------------------------------------------------------------------
SECONDS_PER_HOUR == 3600

ZERO_ADDRESS == "0x00"
ALICE_ADDRESS == "0x01"
BOB_ADDRESS == "0x02"

\* ------------------------------------------------------------------------
\* src/utils.ts
\* ------------------------------------------------------------------------
\* an id made of the hour alone
getObservationId_hourOnly(address, hourTimestamp) == <<ZERO_ADDRESS, hourTimestamp>>

\* an id made of the address alone
getObservationId_addressOnly(address, hourTimestamp) == <<address, 0>>

\* address + '-' + hourTimestamp.toString(): one id per (address, hour) pair
getObservationId(address, hourTimestamp) == <<address, hourTimestamp>>

\* the timestamp rounded up to the end of its hour
getHourTimestamp_roundedUp(timestamp) ==
    (timestamp \div SECONDS_PER_HOUR) * SECONDS_PER_HOUR + SECONDS_PER_HOUR

\* the timestamp taken for its hour, not rounded down
getHourTimestamp_unfloored(timestamp) == timestamp

getHourTimestamp(timestamp) == (timestamp \div SECONDS_PER_HOUR) * SECONDS_PER_HOUR

\* ------------------------------------------------------------------------
\* Bounds of the model
\* ------------------------------------------------------------------------
\* number of handleTransfer calls in a run fed with arbitrary events
MaxCalls == 2
\* number of handleTransfer calls in a run fed by an ERC20 token contract
MaxFeed == 4
\* event timestamps are the multiples of half an hour up to MaxTick half hours
MaxTick == 3
\* transferred values are 0..MaxValue
MaxValue == 1
\* number of handleTransfer calls in a run that is also queried
MaxQueryFeed == 1
\* number of handleTransfer calls in a run whose saves are taken one by one
MaxStepCalls == 2
\* number of handleTransfer calls in a run that builds chains of observations
MaxChainCalls == 3
\* the events of such a run fall into the hours 0..MaxHour
MaxHour == 2
\* number of handleTransfer calls before two events of one timestamp are handled
MaxPairFeed == 1

TimeStep == SECONDS_PER_HOUR \div 2

Accounts == {ZERO_ADDRESS, ALICE_ADDRESS, BOB_ADDRESS}
Holders == Accounts \ {ZERO_ADDRESS}
Values == 0..MaxValue
Times == {k * TimeStep : k \in 0..MaxTick}
\* the hour timestamps a client asks about: every hour with an event, and the next
QueryTimes == {getHourTimestamp(t) : t \in Times}
                  \cup {getHourTimestamp(MaxTick * TimeStep) + SECONDS_PER_HOUR}
\* the timestamps a query is tried with: the hours above, and one that is no hour
ProbeTimes == QueryTimes \cup {TimeStep}

VARIABLES
    users,          \* the User entities of the store: id -> entity
    observations,   \* the HourObservation entities of the store: id -> entity
    events,         \* the Transfer events handed to handleTransfer so far, in order
    status,         \* how the last handleTransfer call ended: "ok", or the error thrown
    answer,         \* the query a client has made and not yet consumed, with its result
    inflight        \* the handler call in progress, when its saves are taken one by one

vars == <<users, observations, events, status, answer, inflight>>

\* ------------------------------------------------------------------------
\* The entity store
\* ------------------------------------------------------------------------
NULL == [id |-> "null"]

EmptyStore == [id \in {} |-> NULL]

Load(store, id) == IF id \in DOMAIN store THEN store[id] ELSE NULL

Save(store, id, entity) ==
    [i \in DOMAIN store \cup {id} |-> IF i = id THEN entity ELSE store[i]]

\* ------------------------------------------------------------------------
\* src/mapping.ts
\* ------------------------------------------------------------------------
\* a User entity made anew without looking for a stored one
getOrCreateUser_alwaysNew(U, address) ==
    LET user == [id |-> address,
                 balance |-> 0,
                 observationCount |-> 0,
                 lastHourTimestamp |-> 0]
    IN  [users |-> Save(U, address, user), user |-> user]

\* Returns the store after the call and the entity object handed to the caller.
getOrCreateUser(U, address) ==
    IF Load(U, address) = NULL
    THEN LET user == [id |-> address,
                      balance |-> 0,
                      observationCount |-> 0,
                      lastHourTimestamp |-> 0]
         IN  [users |-> Save(U, address, user), user |-> user]
    ELSE [users |-> U, user |-> Load(U, address)]

\* every call taken for the first of its hour
isNewObservation_always(observation) == TRUE

\* if (observation == null)
isNewObservation(observation) == observation = NULL

\* the link set to the last event's timestamp, as in the earlier revision
previousHourOf_unfloored(lastObservation) == lastObservation.lastTimestamp

\* observation.previousHourTimestamp = getHourTimestamp(lastObservation.lastTimestamp)
previousHourOf(lastObservation) == getHourTimestamp(lastObservation.lastTimestamp)

\* the count left as it was
nextObservationCount_same(user) == user.observationCount

\* user.observationCount = user.observationCount.plus(BigInt.fromI32(1))
nextObservationCount(user) == user.observationCount + 1

\* the time since the last observation weighted by the balance after the event
heldBalance_latest(user, priorUserBalance) == user.balance

\* timeDelta.times(priorUserBalance): the balance held up to the event
heldBalance(user, priorUserBalance) == priorUserBalance

\* Returns both stores after the call and the observation object, which the
\* caller has yet to save.
getOrCreateHourObservation(U, O, user, currentTimestamp, priorUserBalance) ==
    LET hourTimestamp == getHourTimestamp(currentTimestamp)
        observationId == getObservationId(user.id, hourTimestamp)
        loaded == Load(O, observationId)
    IN  IF isNewObservation(loaded)
        THEN LET fresh == [id |-> observationId,
                           user |-> user.id,
                           lastTimestamp |-> currentTimestamp,
                           lastBalance |-> user.balance,
                           cumulativeHODL |-> 0,
                           previousHourTimestamp |-> 0,
                           nextHourTimestamp |-> 0]
                 lastObservationId == getObservationId(user.id, user.lastHourTimestamp)
                 lastObservation == IF user.observationCount > 0
                                    THEN Load(O, lastObservationId)
                                    ELSE NULL
                 observation ==
                     IF lastObservation # NULL
                     THEN [fresh EXCEPT
                             !.cumulativeHODL = lastObservation.cumulativeHODL
                                 + (currentTimestamp - lastObservation.lastTimestamp)
                                     * heldBalance(user, priorUserBalance),
                             !.previousHourTimestamp = previousHourOf(lastObservation)]
                     ELSE fresh
                 O1 == IF lastObservation # NULL
                       THEN Save(O, lastObservationId,
                                 [lastObservation EXCEPT !.nextHourTimestamp = hourTimestamp])
                       ELSE O
                 user1 == [user EXCEPT !.observationCount = nextObservationCount(user),
                                       !.lastHourTimestamp = hourTimestamp]
             IN  [users |-> Save(U, user.id, user1),
                  observations |-> O1,
                  observation |-> observation]
        ELSE [users |-> U,
              observations |-> O,
              observation |->
                  [loaded EXCEPT
                     !.cumulativeHODL = @ + (currentTimestamp - loaded.lastTimestamp)
                                              * heldBalance(user, priorUserBalance),
                     !.lastTimestamp = currentTimestamp,
                     !.lastBalance = user.balance]]

\* getOrCreateHourObservation(...) without the caller's observation.save()
saveObservation_unsaved(U, O, user, currentTimestamp, priorUserBalance) ==
    LET r == getOrCreateHourObservation(U, O, user, currentTimestamp, priorUserBalance)
    IN  [users |-> r.users, observations |-> r.observations]

\* getOrCreateHourObservation(...) followed by the caller's observation.save()
saveObservation(U, O, user, currentTimestamp, priorUserBalance) ==
    LET r == getOrCreateHourObservation(U, O, user, currentTimestamp, priorUserBalance)
    IN  [users |-> r.users,
         observations |-> Save(r.observations, r.observation.id, r.observation)]

\* the early return never taken
isNonZeroTransfer_always(value) == TRUE

\* the early return taken only for negative values
isNonZeroTransfer_noEarlyReturn(value) == value >= 0

isNonZeroTransfer(value) == value > 0

\* the handler without its mint-and-burn check
mintAndBurn_unchecked(isMint, isBurn) == FALSE

\* the condition under which handleTransfer throws
mintAndBurn(isMint, isBurn) == isMint /\ isBurn

\* a burn that leaves the total supply as it was
totalSupplyChange_mintOnly(isMint, isBurn, value) == IF isMint THEN value ELSE 0

\* Update total supply (stored in the zero address user)
totalSupplyChange(isMint, isBurn, value) ==
    IF isMint THEN value ELSE IF isBurn THEN 0 - value ELSE 0

\* The whole handler: the stores it leaves behind and how it ended.
handleTransfer(U, O, from, to, value, timestamp) ==
    IF ~isNonZeroTransfer(value)
    THEN [users |-> U, observations |-> O, status |-> "ok"]
    ELSE
    LET g1 == getOrCreateUser(U, from)
        g2 == getOrCreateUser(g1.users, to)
        g3 == getOrCreateUser(g2.users, ZERO_ADDRESS)
        fromUser == g1.user
        toUser == g2.user
        tokenUser == g3.user
        isMint == fromUser.id = ZERO_ADDRESS
        isBurn == toUser.id = ZERO_ADDRESS
    IN  IF mintAndBurn(isMint, isBurn)
        THEN [users |-> g3.users, observations |-> O, status |-> "InvariantViolation"]
        ELSE
        LET priorFromBalance == fromUser.balance
            priorToBalance == toUser.balance
            priorTotalSupply == tokenUser.balance
            \* Update balances
            fromUser1 == IF ~isMint THEN [fromUser EXCEPT !.balance = @ - value] ELSE fromUser
            U1 == IF ~isMint THEN Save(g3.users, fromUser1.id, fromUser1) ELSE g3.users
            toUser1 == IF ~isBurn THEN [toUser EXCEPT !.balance = @ + value] ELSE toUser
            U2 == IF ~isBurn THEN Save(U1, toUser1.id, toUser1) ELSE U1
            \* Update total supply
            tokenUser1 == [tokenUser EXCEPT
                             !.balance = @ + totalSupplyChange(isMint, isBurn, value)]
            U3 == Save(U2, tokenUser1.id, tokenUser1)
            \* Create or update observations
            s0 == [users |-> U3, observations |-> O]
            s1 == IF ~isMint
                  THEN saveObservation(s0.users, s0.observations, fromUser1,
                                       timestamp, priorFromBalance)
                  ELSE s0
            s2 == IF ~isBurn
                  THEN saveObservation(s1.users, s1.observations, toUser1,
                                       timestamp, priorToBalance)
                  ELSE s1
            s3 == saveObservation(s2.users, s2.observations, tokenUser1,
                                  timestamp, priorTotalSupply)
        IN  [users |-> s3.users, observations |-> s3.observations, status |-> "ok"]

\* ------------------------------------------------------------------------
\* The state machine: the event feed calls handleTransfer once per event,
\* in non-decreasing timestamp order.
\* ------------------------------------------------------------------------
Now == IF Len(events) = 0 THEN 0 ELSE events[Len(events)].timestamp

\* no query outstanding
NoAnswer == [op |-> "none"]

\* no handler call in progress
Idle == [event |-> "none"]

Init ==
    /\ users = EmptyStore
    /\ observations = EmptyStore
    /\ events = <<>>
    /\ status = "ok"
    /\ answer = NoAnswer
    /\ inflight = Idle

\* one call of the handler, with the event's timestamp in feed order
Call(from, to, value, timestamp) ==
    /\ timestamp >= Now
    /\ LET r == handleTransfer(users, observations, from, to, value, timestamp)
       IN  /\ users' = r.users
           /\ observations' = r.observations
           /\ status' = r.status
    /\ events' = Append(events, [from |-> from, to |-> to, value |-> value,
                                 timestamp |-> timestamp])
    /\ UNCHANGED <<answer, inflight>>

HandleTransfer(from, to, value, timestamp) ==
    /\ Len(events) < MaxCalls
    /\ Call(from, to, value, timestamp)

Next ==
    \E from \in Accounts, to \in Accounts, value \in Values, timestamp \in Times :
        HandleTransfer(from, to, value, timestamp)

Spec == Init /\ [][Next]_vars

\* ------------------------------------------------------------------------
\* The query helpers of tests/handleTransfer.test.ts (the computation a client
\* of the subgraph performs).  A result is [status, value]; status is "ok" or
\* the error thrown.
\* ------------------------------------------------------------------------
Ok(value) == [status |-> "ok", value |-> value]
Thrown(error) == [status |-> error, value |-> 0]

extrapolateCumulativeHODL(observation, timestamp) ==
    LET timeDelta == timestamp - observation.lastTimestamp
    IN  observation.cumulativeHODL + observation.lastBalance * timeDelta

\* the walk left standing at the observation it has just rejected
stepBack_none(currentObservation) == currentObservation.id[2]

\* currentHourTimestamp = currentObservation.previousHourTimestamp
stepBack(currentObservation) == currentObservation.previousHourTimestamp

\* the while loop of getOrComputeCumulativeHODL, from currentHourTimestamp on
RECURSIVE walkBack(_, _, _, _)
walkBack(O, address, currentHourTimestamp, timestamp) ==
    IF ~(currentHourTimestamp > 0)
    THEN Ok(0)
    ELSE LET currentObservation == Load(O, getObservationId(address, currentHourTimestamp))
         IN  IF currentObservation = NULL
             THEN Thrown("InvariantViolation")
             ELSE IF currentObservation.lastTimestamp <= timestamp
             THEN Ok(extrapolateCumulativeHODL(currentObservation, timestamp))
             ELSE walkBack(O, address, stepBack(currentObservation), timestamp)

\* the hours the while loop is entered with, in the order of its iterations;
\* cut off after the iteration that follows the fuel-th
RECURSIVE walkBackVisits(_, _, _, _, _)
walkBackVisits(O, address, currentHourTimestamp, timestamp, fuel) ==
    IF ~(currentHourTimestamp > 0)
    THEN <<>>
    ELSE LET currentObservation == Load(O, getObservationId(address, currentHourTimestamp))
         IN  IF fuel = 0 \/ currentObservation = NULL
                \/ currentObservation.lastTimestamp <= timestamp
             THEN <<currentHourTimestamp>>
             ELSE <<currentHourTimestamp>>
                      \o walkBackVisits(O, address, stepBack(currentObservation),
                                        timestamp, fuel - 1)

\* the check dropped: every timestamp is taken for a discrete hour
isDiscreteHour_unchecked(timestamp) == TRUE

\* timestamp.equals(getHourTimestamp(timestamp))
isDiscreteHour(timestamp) == timestamp = getHourTimestamp(timestamp)

\* an address without a User entity credited with the time elapsed
unknownUserHODL_elapsed(timestamp) == Ok(timestamp)

\* if (user == null) return BigInt.fromI32(0)
unknownUserHODL(timestamp) == Ok(0)

getOrComputeCumulativeHODL(U, O, address, timestamp) ==
    IF ~isDiscreteHour(timestamp)
    THEN Thrown("AlignmentError")
    ELSE IF Load(U, address) = NULL
    THEN unknownUserHODL(timestamp)
    ELSE LET user == Load(U, address)
             observation == Load(O, getObservationId(address, timestamp))
         IN  IF observation # NULL
             THEN LET previousObservation ==
                          Load(O, getObservationId(address, observation.previousHourTimestamp))
                  IN  IF previousObservation # NULL
                      THEN Ok(extrapolateCumulativeHODL(previousObservation, timestamp))
                      ELSE Ok(0)
             ELSE walkBack(O, address, user.lastHourTimestamp, timestamp)

\* the iterations of the while loop in getOrComputeCumulativeHODL(address,
\* timestamp), cut off once they outnumber the user's observations
getOrComputeCumulativeHODLVisits(U, O, address, timestamp) ==
    IF ~isDiscreteHour(timestamp) \/ Load(U, address) = NULL
           \/ Load(O, getObservationId(address, timestamp)) # NULL
    THEN <<>>
    ELSE walkBackVisits(O, address, Load(U, address).lastHourTimestamp, timestamp,
                        Load(U, address).observationCount)

\* the range check that lets an empty period through
endNotAfterStart_strict(startTimestamp, endTimestamp) == endTimestamp < startTimestamp

\* endTimestamp.le(startTimestamp)
endNotAfterStart(startTimestamp, endTimestamp) == endTimestamp <= startTimestamp

\* the division carried out whatever the divisor
isZeroDelta_unchecked(tokenHODLDelta) == FALSE

\* tokenHODLDelta.equals(BigInt.fromI32(0))
isZeroDelta(tokenHODLDelta) == tokenHODLDelta = 0

\* The ratio is the exact quotient num / den of two integers.
computeHODLerRatio(U, O, userAddress, startTimestamp, endTimestamp) ==
    IF endNotAfterStart(startTimestamp, endTimestamp)
    THEN [status |-> "RangeError", num |-> 0, den |-> 1]
    ELSE LET userStart == getOrComputeCumulativeHODL(U, O, userAddress, startTimestamp)
             userEnd == getOrComputeCumulativeHODL(U, O, userAddress, endTimestamp)
             tokenStart == getOrComputeCumulativeHODL(U, O, ZERO_ADDRESS, startTimestamp)
             tokenEnd == getOrComputeCumulativeHODL(U, O, ZERO_ADDRESS, endTimestamp)
             userHODLDelta == userEnd.value - userStart.value
             tokenHODLDelta == tokenEnd.value - tokenStart.value
         IN  IF userStart.status # "ok" THEN [status |-> userStart.status, num |-> 0, den |-> 1]
             ELSE IF userEnd.status # "ok" THEN [status |-> userEnd.status, num |-> 0, den |-> 1]
             ELSE IF tokenStart.status # "ok"
             THEN [status |-> tokenStart.status, num |-> 0, den |-> 1]
             ELSE IF tokenEnd.status # "ok"
             THEN [status |-> tokenEnd.status, num |-> 0, den |-> 1]
             ELSE IF isZeroDelta(tokenHODLDelta)
             THEN [status |-> "DivisionByZero", num |-> 0, den |-> 1]
             ELSE [status |-> "ok", num |-> userHODLDelta, den |-> tokenHODLDelta]

\* the queries, asked of the current store
metricAt(address, timestamp) ==
    getOrComputeCumulativeHODL(users, observations, address, timestamp)

ratio(address, startTimestamp, endTimestamp) ==
    computeHODLerRatio(users, observations, address, startTimestamp, endTimestamp)

\* the stored balance of an account; an account without a User entity holds nothing
balanceOf(address) == IF address \in DOMAIN users THEN users[address].balance ELSE 0

\* ------------------------------------------------------------------------
\* The token ledger the events describe, replayed from the event log: what the
\* stored entities are compared against.
\* ------------------------------------------------------------------------
\* an event that moves tokens: non-zero, and not from the zero address to itself
Moves(e) == e.value > 0 /\ ~(e.from = ZERO_ADDRESS /\ e.to = ZERO_ADDRESS)

\* the change of an account's holding made by event e; the zero address stands
\* for the total supply
Delta(address, e) ==
    IF ~Moves(e) THEN 0
    ELSE IF address = ZERO_ADDRESS
    THEN (IF e.from = ZERO_ADDRESS THEN e.value ELSE 0)
             - (IF e.to = ZERO_ADDRESS THEN e.value ELSE 0)
    ELSE (IF e.to = address THEN e.value ELSE 0)
             - (IF e.from = address THEN e.value ELSE 0)

\* the holding of an account after the first n events of the log
RECURSIVE LedgerBalance(_, _)
LedgerBalance(address, n) ==
    IF n = 0 THEN 0 ELSE LedgerBalance(address, n - 1) + Delta(address, events[n])

\* the holding of an account at time t: after every event up to t
RECURSIVE LedgerBalanceUpTo(_, _, _)
LedgerBalanceUpTo(address, t, n) ==
    IF n = 0 THEN 0
    ELSE LedgerBalanceUpTo(address, t, n - 1)
             + (IF events[n].timestamp <= t THEN Delta(address, events[n]) ELSE 0)

LedgerBalanceAt(address, t) == LedgerBalanceUpTo(address, t, Len(events))

\* balance x time held up to T: each change of the holding counts from its
\* event's timestamp to T
RECURSIVE LedgerHODLUpTo(_, _, _)
LedgerHODLUpTo(address, T, n) ==
    IF n = 0 THEN 0
    ELSE LedgerHODLUpTo(address, T, n - 1)
             + (IF events[n].timestamp <= T
                THEN Delta(address, events[n]) * (T - events[n].timestamp)
                ELSE 0)

LedgerHODL(address, T) == LedgerHODLUpTo(address, T, Len(events))

\* ------------------------------------------------------------------------
\* The feed of an ERC20 token contract: a transfer or a burn never exceeds
\* the holder's balance, and no event goes from the zero address to itself.
\* ------------------------------------------------------------------------
Emittable(from, to, value) ==
    /\ ~(from = ZERO_ADDRESS /\ to = ZERO_ADDRESS)
    /\ from # ZERO_ADDRESS => value <= LedgerBalance(from, Len(events))

ERC20Transfer(from, to, value, timestamp) ==
    /\ Len(events) < MaxFeed
    /\ Emittable(from, to, value)
    /\ Call(from, to, value, timestamp)

NextERC20 ==
    \E from \in Accounts, to \in Accounts, value \in Values, timestamp \in Times :
        ERC20Transfer(from, to, value, timestamp)

SpecERC20 == Init /\ [][NextERC20]_vars

\* ------------------------------------------------------------------------
\* A store that is queried between handler calls. A query leaves its
\* arguments and its result in answer until the client has consumed it.
\* ------------------------------------------------------------------------
Feed(from, to, value, timestamp) ==
    /\ Len(events) < MaxQueryFeed
    /\ answer = NoAnswer
    /\ Call(from, to, value, timestamp)

\* the answer record of getOrComputeCumulativeHODL(address, timestamp)
metricAnswer(address, timestamp) ==
    LET r == metricAt(address, timestamp)
    IN  [op |-> "metricAt", address |-> address,
         startTimestamp |-> timestamp, endTimestamp |-> timestamp,
         status |-> r.status, num |-> r.value, den |-> 1]

\* the answer record of computeHODLerRatio(address, startTimestamp, endTimestamp)
ratioAnswer(address, startTimestamp, endTimestamp) ==
    LET r == ratio(address, startTimestamp, endTimestamp)
    IN  [op |-> "ratio", address |-> address,
         startTimestamp |-> startTimestamp, endTimestamp |-> endTimestamp,
         status |-> r.status, num |-> r.num, den |-> r.den]

\* a query that creates the User entity it asks about
MetricAt_creating(address, timestamp) ==
    /\ answer = NoAnswer
    /\ answer' = metricAnswer(address, timestamp)
    /\ users' = getOrCreateUser(users, address).users
    /\ UNCHANGED <<observations, events, status, inflight>>

MetricAt(address, timestamp) ==
    /\ answer = NoAnswer
    /\ answer' = metricAnswer(address, timestamp)
    /\ UNCHANGED <<users, observations, events, status, inflight>>

Ratio(address, startTimestamp, endTimestamp) ==
    /\ answer = NoAnswer
    /\ answer' = ratioAnswer(address, startTimestamp, endTimestamp)
    /\ UNCHANGED <<users, observations, events, status, inflight>>

Consume ==
    /\ answer # NoAnswer
    /\ answer' = NoAnswer
    /\ UNCHANGED <<users, observations, events, status, inflight>>

NextQuery ==
    \/ \E from \in Accounts, to \in Accounts, value \in Values, timestamp \in Times :
           Feed(from, to, value, timestamp)
    \/ \E address \in Accounts, timestamp \in ProbeTimes :
           MetricAt(address, timestamp)
    \/ \E address \in Accounts, startTimestamp \in ProbeTimes, endTimestamp \in ProbeTimes :
           Ratio(address, startTimestamp, endTimestamp)
    \/ Consume

SpecQuery == Init /\ [][NextQuery]_vars

\* ------------------------------------------------------------------------
\* The handler taken one save() at a time. Each save() writes one entity to
\* the store; a reader of the store between two saves sees the writes made
\* so far.
\* ------------------------------------------------------------------------
\* a point-in-time copy of the store
Snapshot(U, O) == [users |-> U, observations |-> O]

\* the store after each save() of getOrCreateUser(address): one if the User
\* is created, none otherwise
getOrCreateUserSaves(U, O, address) ==
    IF Load(U, address) = NULL
    THEN <<Snapshot(getOrCreateUser(U, address).users, O)>>
    ELSE <<>>

\* the store after each save() of getOrCreateHourObservation(...) and of the
\* caller's observation.save(): lastObservation.save() and user.save() when
\* the observation is created, then the observation itself
saveObservationSaves(U, O, user, currentTimestamp, priorUserBalance) ==
    LET r == getOrCreateHourObservation(U, O, user, currentTimestamp, priorUserBalance)
        created == Load(O, r.observation.id) = NULL
        linked == created /\ r.observations # O
    IN  (IF linked THEN <<Snapshot(U, r.observations)>> ELSE <<>>)
            \o (IF created THEN <<Snapshot(r.users, r.observations)>> ELSE <<>>)
            \o <<Snapshot(r.users, Save(r.observations, r.observation.id, r.observation))>>

\* the store the handler works on after the saves made so far
LastSnapshot(saves, U, O) ==
    IF saves = <<>> THEN Snapshot(U, O) ELSE saves[Len(saves)]

\* the store after each save() of handleTransfer, in program order
handleTransferSaves(U, O, from, to, value, timestamp) ==
    IF ~isNonZeroTransfer(value)
    THEN <<>>
    ELSE
    LET g1 == getOrCreateUser(U, from)
        g2 == getOrCreateUser(g1.users, to)
        g3 == getOrCreateUser(g2.users, ZERO_ADDRESS)
        created == getOrCreateUserSaves(U, O, from)
                       \o getOrCreateUserSaves(g1.users, O, to)
                       \o getOrCreateUserSaves(g2.users, O, ZERO_ADDRESS)
        fromUser == g1.user
        toUser == g2.user
        tokenUser == g3.user
        isMint == fromUser.id = ZERO_ADDRESS
        isBurn == toUser.id = ZERO_ADDRESS
    IN  IF mintAndBurn(isMint, isBurn)
        THEN created
        ELSE
        LET priorFromBalance == fromUser.balance
            priorToBalance == toUser.balance
            priorTotalSupply == tokenUser.balance
            fromUser1 == IF ~isMint THEN [fromUser EXCEPT !.balance = @ - value] ELSE fromUser
            U1 == IF ~isMint THEN Save(g3.users, fromUser1.id, fromUser1) ELSE g3.users
            toUser1 == IF ~isBurn THEN [toUser EXCEPT !.balance = @ + value] ELSE toUser
            U2 == IF ~isBurn THEN Save(U1, toUser1.id, toUser1) ELSE U1
            tokenUser1 == [tokenUser EXCEPT
                             !.balance = @ + totalSupplyChange(isMint, isBurn, value)]
            U3 == Save(U2, tokenUser1.id, tokenUser1)
            balances == (IF ~isMint THEN <<Snapshot(U1, O)>> ELSE <<>>)
                            \o (IF ~isBurn THEN <<Snapshot(U2, O)>> ELSE <<>>)
                            \o <<Snapshot(U3, O)>>
            fromSaves == IF ~isMint
                         THEN saveObservationSaves(U3, O, fromUser1,
                                                   timestamp, priorFromBalance)
                         ELSE <<>>
            s1 == LastSnapshot(fromSaves, U3, O)
            toSaves == IF ~isBurn
                       THEN saveObservationSaves(s1.users, s1.observations, toUser1,
                                                 timestamp, priorToBalance)
                       ELSE <<>>
            s2 == LastSnapshot(toSaves, s1.users, s1.observations)
            tokenSaves == saveObservationSaves(s2.users, s2.observations, tokenUser1,
                                               timestamp, priorTotalSupply)
        IN  created \o balances \o fromSaves \o toSaves \o tokenSaves

\* the handler is entered with an event of the token contract: its saves are
\* still to be made
Begin(from, to, value, timestamp) ==
    /\ inflight = Idle
    /\ Len(events) < MaxStepCalls
    /\ Emittable(from, to, value)
    /\ timestamp >= Now
    /\ LET r == handleTransfer(users, observations, from, to, value, timestamp)
       IN  inflight' = [event |-> "Transfer",
                        before |-> Snapshot(users, observations),
                        after |-> Snapshot(r.users, r.observations),
                        saves |-> handleTransferSaves(users, observations,
                                                      from, to, value, timestamp),
                        status |-> r.status]
    /\ events' = Append(events, [from |-> from, to |-> to, value |-> value,
                                 timestamp |-> timestamp])
    /\ UNCHANGED <<users, observations, status, answer>>

\* the next save() of the handler reaches the store
SaveStep ==
    /\ inflight # Idle
    /\ inflight.saves # <<>>
    /\ users' = Head(inflight.saves).users
    /\ observations' = Head(inflight.saves).observations
    /\ inflight' = [inflight EXCEPT !.saves = Tail(@)]
    /\ UNCHANGED <<events, status, answer>>

\* the handler returns or throws
Finish ==
    /\ inflight # Idle
    /\ inflight.saves = <<>>
    /\ status' = inflight.status
    /\ inflight' = Idle
    /\ UNCHANGED <<users, observations, events, answer>>

NextSteps ==
    \/ \E from \in Accounts, to \in Accounts, value \in Values, timestamp \in Times :
           Begin(from, to, value, timestamp)
    \/ SaveStep
    \/ Finish

SpecSteps == Init /\ [][NextSteps]_vars

\* ------------------------------------------------------------------------
\* A feed long enough, over hours enough, for an account to get a chain of
\* three observations: non-zero events only, at the full hours and at one
\* timestamp within hour 0.
\* ------------------------------------------------------------------------
ChainValues == {MaxValue}
ChainTimes == {h * SECONDS_PER_HOUR : h \in 0..MaxHour} \cup {TimeStep}

ChainTransfer(from, to, value, timestamp) ==
    /\ Len(events) < MaxChainCalls
    /\ Call(from, to, value, timestamp)

NextChain ==
    \E from \in Accounts, to \in Accounts, value \in ChainValues,
       timestamp \in ChainTimes :
        ChainTransfer(from, to, value, timestamp)

SpecChain == Init /\ [][NextChain]_vars

\* ------------------------------------------------------------------------
\* A feed in which two non-zero events carry the same timestamp, as two
\* Transfer events of one block do: the handler is called for the first,
\* then for the second. Before them the holders receive tokens, by mints
\* and by transfers from each other.
\* ------------------------------------------------------------------------
PairValues == 1..MaxValue

PairFeed(from, to, value, timestamp) ==
    /\ Len(events) < MaxPairFeed
    /\ Call(from, to, value, timestamp)

CallPair(from1, to1, value1, from2, to2, value2, timestamp) ==
    /\ Len(events) = MaxPairFeed
    /\ from1 # to1
    /\ from2 # to2
    /\ timestamp >= Now
    /\ \E first \in {handleTransfer(users, observations, from1, to1, value1, timestamp)} :
       \E second \in {handleTransfer(first.users, first.observations,
                                     from2, to2, value2, timestamp)} :
           /\ users' = second.users
           /\ observations' = second.observations
           /\ status' = second.status
    /\ events' = events \o <<[from |-> from1, to |-> to1, value |-> value1,
                              timestamp |-> timestamp],
                             [from |-> from2, to |-> to2, value |-> value2,
                              timestamp |-> timestamp]>>
    /\ UNCHANGED <<answer, inflight>>

NextPair ==
    \/ \E from \in Accounts, to \in Holders, value \in ChainValues, timestamp \in Times :
           from # to /\ PairFeed(from, to, value, timestamp)
    \/ \E from1 \in Accounts, to1 \in Accounts, value1 \in PairValues,
          from2 \in Accounts, to2 \in Accounts, value2 \in PairValues,
          timestamp \in Times :
           CallPair(from1, to1, value1, from2, to2, value2, timestamp)

SpecPair == Init /\ [][NextPair]_vars

\* ------------------------------------------------------------------------
\* Properties
\* ------------------------------------------------------------------------
LastEvent == events[Len(events)]

RECURSIVE SumOver(_, _, _)
\* the sum of metricAt(a, T).value over the accounts a of S
SumOver(S, T, acc) ==
    IF S = {} THEN acc
    ELSE LET a == CHOOSE x \in S : TRUE
         IN  SumOver(S \ {a}, T, acc + metricAt(a, T).value)

HolderHODL(T) == SumOver(Holders, T, 0)

RECURSIVE SumBalances(_, _)
SumBalances(S, acc) ==
    IF S = {} THEN acc
    ELSE LET a == CHOOSE x \in S : TRUE
         IN  SumBalances(S \ {a}, acc + balanceOf(a))

\* C1: at every hour timestamp T, the cumulative HODL of the holders adds up to
\* the cumulative HODL of the zero address (the token as a whole).
C1_HolderSumEqualsTotal ==
    \A T \in QueryTimes :
        /\ \A a \in Accounts : metricAt(a, T).status = "ok"
        /\ HolderHODL(T) = metricAt(ZERO_ADDRESS, T).value

\* C2: at every hour timestamp T, the cumulative HODL computed from the stored
\* observations is the balance x time the account held up to T according to
\* the replayed event log.
C2_MetricIsExact ==
    \A a \in Accounts, T \in QueryTimes :
        metricAt(a, T) = Ok(LedgerHODL(a, T))

\* C3: the stored balance of the zero address is the sum of the stored holder
\* balances.
C3_SupplyIsSumOfBalances ==
    balanceOf(ZERO_ADDRESS) = SumBalances(Holders, 0)

\* C4: no stored balance is negative.
C4_BalancesNonNegative ==
    \A a \in DOMAIN users : users[a].balance >= 0

\* C5: the cumulative HODL of an account never decreases from one hour timestamp
\* to a later one, and is never negative.
C5_MetricMonotone ==
    \A a \in Accounts, T1 \in QueryTimes, T2 \in QueryTimes :
        T1 <= T2 =>
            /\ metricAt(a, T1).status = "ok" /\ metricAt(a, T2).status = "ok"
            /\ metricAt(a, T1).value >= 0
            /\ metricAt(a, T2).value >= metricAt(a, T1).value

\* No holder but a holds anything at any instant of [start, end): holdings change
\* only at events, so it is enough to look at start and at the events inside.
SoleHolder(a, start, end) ==
    \A b \in Holders \ {a} :
        /\ LedgerBalanceAt(b, start) = 0
        /\ \A i \in 1..Len(events) :
               (start < events[i].timestamp /\ events[i].timestamp < end)
                   => LedgerBalanceAt(b, events[i].timestamp) = 0

\* C6: over a period with supply in which one account is the only holder, that
\* account's ratio is exactly 1.
C6_SoleHolderRatioIsOne ==
    \A a \in Holders, start \in QueryTimes, end \in QueryTimes :
        ( /\ start < end
          /\ SoleHolder(a, start, end)
          /\ LedgerHODL(ZERO_ADDRESS, end) - LedgerHODL(ZERO_ADDRESS, start) # 0 )
        => /\ ratio(a, start, end).status = "ok"
           /\ ratio(a, start, end).num = ratio(a, start, end).den

\* C7: over a period for which the zero address's HODL delta is not zero, the
\* HODL deltas of the holders add up to it (their ratios add up to 1).
C7_RatiosSumToOne ==
    \A start \in QueryTimes, end \in QueryTimes :
        ( /\ start < end
          /\ metricAt(ZERO_ADDRESS, end).value - metricAt(ZERO_ADDRESS, start).value # 0 )
        => HolderHODL(end) - HolderHODL(start)
               = metricAt(ZERO_ADDRESS, end).value - metricAt(ZERO_ADDRESS, start).value

\* C8: a Transfer of value 0 leaves the store as it is: no User or
\* HourObservation is created, none is changed, and the handler returns normally.
C8_ZeroTransferIsNoOp ==
    [][ LastEvent'.value = 0
            => /\ users' = users
               /\ observations' = observations
               /\ status' = "ok" ]_vars

\* a zero-value Transfer from an address the store has never seen was handled
\* after observations had been recorded
C8_Witness ==
    /\ Len(events) > 1
    /\ LastEvent.value = 0
    /\ LastEvent.from # LastEvent.to
    /\ LastEvent.from \notin DOMAIN users
    /\ observations # EmptyStore

\* C9: a non-zero Transfer from the zero address to the zero address makes the
\* handler throw; no balance and no observation changes.
C9_MintAndBurnThrows ==
    [][ ( /\ LastEvent'.value > 0
          /\ LastEvent'.from = ZERO_ADDRESS
          /\ LastEvent'.to = ZERO_ADDRESS )
            => /\ status' = "InvariantViolation"
               /\ \A a \in Accounts : balanceOf(a)' = balanceOf(a)
               /\ observations' = observations ]_vars

\* the handler threw on a store that already held a supply and observations
C9_Witness ==
    /\ status = "InvariantViolation"
    /\ LastEvent.from = ZERO_ADDRESS /\ LastEvent.to = ZERO_ADDRESS
    /\ balanceOf(ZERO_ADDRESS) > 0
    /\ observations # EmptyStore

\* C10: a call that throws leaves the store exactly as it found it.
C10_FailedCallChangesNothing ==
    [][ status' # "ok" => (users' = users /\ observations' = observations) ]_vars

\* ------------------------------------------------------------------------
\* Properties of the queries
\* ------------------------------------------------------------------------
\* a multiple of the bucket size
Aligned(timestamp) == timestamp % SECONDS_PER_HOUR = 0

\* no non-zero event of the log names the address as sender or receiver
NeverReferenced(address) ==
    \A i \in 1..Len(events) :
        events[i].value > 0 => (events[i].from # address /\ events[i].to # address)

\* the observations stored for an address
ObservationsOf(O, address) == {id \in DOMAIN O : O[id].user = address}

\* C11: metricAt with a timestamp that is no multiple of the bucket size fails
\* with AlignmentError, for every account, known or not, in every state.
C11_UnalignedIsAlignmentError ==
    (answer.op = "metricAt" /\ ~Aligned(answer.startTimestamp))
        => answer.status = "AlignmentError"

\* an unaligned query about an account that has a User entity and observations
C11_Witness ==
    /\ answer.op = "metricAt"
    /\ ~Aligned(answer.startTimestamp)
    /\ answer.address \in DOMAIN users
    /\ ObservationsOf(observations, answer.address) # {}

\* C12: ratio fails with RangeError whenever end <= start, end = start
\* included, for every account in every state.
C12_EmptyPeriodIsRangeError ==
    (answer.op = "ratio" /\ answer.endTimestamp <= answer.startTimestamp)
        => answer.status = "RangeError"

\* a ratio over the empty period end = start, asked of a store with observations
C12_Witness ==
    /\ answer.op = "ratio"
    /\ answer.endTimestamp = answer.startTimestamp
    /\ Aligned(answer.startTimestamp)
    /\ answer.address \in DOMAIN users
    /\ observations # EmptyStore

\* C13: ratio over aligned start < end fails with DivisionByZero exactly when
\* metricAt(sentinel, end) - metricAt(sentinel, start) is 0.
C13_DivisionByZeroIffNoSupplyDelta ==
    ( /\ answer.op = "ratio"
      /\ Aligned(answer.startTimestamp) /\ Aligned(answer.endTimestamp)
      /\ answer.startTimestamp < answer.endTimestamp )
        => ( answer.status = "DivisionByZero"
               <=> metricAt(ZERO_ADDRESS, answer.endTimestamp).value
                     - metricAt(ZERO_ADDRESS, answer.startTimestamp).value = 0 )

\* a ratio that failed with DivisionByZero although the store holds a supply
C13_Witness ==
    /\ answer.op = "ratio"
    /\ answer.status = "DivisionByZero"
    /\ balanceOf(ZERO_ADDRESS) > 0
    /\ answer.address \in DOMAIN users

\* C14: for an account no non-zero event ever named, metricAt returns 0 at
\* every aligned timestamp and the ratio over a period with a non-zero
\* sentinel delta is 0.
C14_UnreferencedAccountIsZero ==
    (answer # NoAnswer /\ NeverReferenced(answer.address))
        => /\ (answer.op = "metricAt" /\ Aligned(answer.startTimestamp))
                 => (answer.status = "ok" /\ answer.num = 0)
           /\ ( /\ answer.op = "ratio"
                /\ Aligned(answer.startTimestamp) /\ Aligned(answer.endTimestamp)
                /\ answer.startTimestamp < answer.endTimestamp
                /\ metricAt(ZERO_ADDRESS, answer.endTimestamp).value
                     # metricAt(ZERO_ADDRESS, answer.startTimestamp).value )
                 => (answer.status = "ok" /\ answer.num = 0 /\ answer.den # 0)

\* the ratio of a holder nobody ever sent to, over a period in which supply existed
C14_Witness ==
    /\ answer.op = "ratio"
    /\ answer.status = "ok"
    /\ answer.address \in Holders
    /\ NeverReferenced(answer.address)
    /\ answer.den > 0

\* C15: when every checkpoint of the account has lastTimestamp > T, metricAt at
\* the aligned timestamp T returns 0, also with the first checkpoint in bucket 0.
C15_ZeroBeforeFirstCheckpoint ==
    \A address \in Accounts, T \in QueryTimes :
        ( /\ ObservationsOf(observations, address) # {}
          /\ \A id \in ObservationsOf(observations, address) :
                 observations[id].lastTimestamp > T )
            => metricAt(address, T) = Ok(0)

\* C16: metricAt and ratio are read-only: whether they return or fail, no User
\* and no HourObservation changes, and asking again in the state they leave
\* gives the same result.
C16_QueriesAreReadOnly ==
    [][ (answer = NoAnswer /\ answer' # NoAnswer)
          => /\ users' = users
             /\ observations' = observations
             /\ answer' = ( IF answer.op = "metricAt"
                            THEN metricAnswer(answer.address, answer.startTimestamp)
                            ELSE ratioAnswer(answer.address, answer.startTimestamp,
                                             answer.endTimestamp) )' ]_vars

\* a failed query has been answered on a store that holds observations
C16_Witness ==
    /\ answer # NoAnswer
    /\ answer.status \notin {"ok", "RangeError"}
    /\ Aligned(answer.startTimestamp)
    /\ observations # EmptyStore

\* the computation documented with the example queries: the observation of the
\* address with the greatest lastTimestamp strictly less than T (where:
\* lastTimestamp_lt, orderBy: lastTimestamp, orderDirection: desc, first: 1),
\* extrapolated to T; 0 when there is none
clientCumulativeHODL(O, address, T) ==
    LET earlier == {id \in ObservationsOf(O, address) : O[id].lastTimestamp < T}
    IN  IF earlier = {} THEN 0
        ELSE LET last == CHOOSE id \in earlier :
                             \A other \in earlier :
                                 O[other].lastTimestamp <= O[id].lastTimestamp
             IN  O[last].cumulativeHODL + O[last].lastBalance * (T - O[last].lastTimestamp)

\* C17: for every account and aligned T the client-side computation of the
\* example queries yields the value metricAt returns.
C17_ClientAgreesWithMetricAt ==
    \A address \in Accounts, T \in QueryTimes :
        metricAt(address, T) = Ok(clientCumulativeHODL(observations, address, T))

\* README: cumulativeHODL(N) = cumulativeHODL(M)
\*             + (cumulativeHODL(O) - cumulativeHODL(M)) * (N - M) / (O - M).
\* The distance of that value from exact, scaled by (O - M): 0 exactly when
\* the formula yields exact.
interpolationError(observationM, observationO, N, exact) ==
    (exact - observationM.cumulativeHODL)
            * (observationO.lastTimestamp - observationM.lastTimestamp)
        - (observationO.cumulativeHODL - observationM.cumulativeHODL)
            * (N - observationM.lastTimestamp)

\* C19: when no observation of the account is stored at time N and M < N < O
\* are the times of its surrounding observations, the linear interpolation
\* between them equals the account's cumulative balance x time at N.
C19_InterpolationIsExact ==
    \A address \in Accounts, N \in Times :
        LET own == ObservationsOf(observations, address)
            before == {id \in own : observations[id].lastTimestamp < N}
            after == {id \in own : observations[id].lastTimestamp > N}
        IN  (before # {} /\ after # {} /\ before \cup after = own)
              => LET M == CHOOSE id \in before : \A j \in before :
                              observations[j].lastTimestamp <= observations[id].lastTimestamp
                     O == CHOOSE id \in after : \A j \in after :
                              observations[j].lastTimestamp >= observations[id].lastTimestamp
                 IN  interpolationError(observations[M], observations[O], N,
                                        LedgerHODL(address, N)) = 0

\* C20: a non-zero event with from # to: a mint adds the amount to the
\* receiver's balance and to the sentinel's and changes no other balance; a
\* burn subtracts it from the sender's balance and from the sentinel's; an
\* ordinary transfer moves it from the sender's balance to the receiver's and
\* leaves the sentinel's balance unchanged.
C20_BalanceEffects ==
    [][ (LastEvent'.value > 0 /\ LastEvent'.from # LastEvent'.to)
          => LET from == LastEvent'.from
                 to == LastEvent'.to
                 amount == LastEvent'.value
                 newBalanceOf(a) == IF a \in DOMAIN users' THEN users'[a].balance ELSE 0
             IN  /\ from = ZERO_ADDRESS
                      => /\ newBalanceOf(to) = balanceOf(to) + amount
                         /\ newBalanceOf(ZERO_ADDRESS) = balanceOf(ZERO_ADDRESS) + amount
                         /\ \A a \in Accounts \ {to, ZERO_ADDRESS} :
                                newBalanceOf(a) = balanceOf(a)
                 /\ to = ZERO_ADDRESS
                      => /\ newBalanceOf(from) = balanceOf(from) - amount
                         /\ newBalanceOf(ZERO_ADDRESS) = balanceOf(ZERO_ADDRESS) - amount
                 /\ (from # ZERO_ADDRESS /\ to # ZERO_ADDRESS)
                      => /\ newBalanceOf(from) = balanceOf(from) - amount
                         /\ newBalanceOf(to) = balanceOf(to) + amount
                         /\ newBalanceOf(ZERO_ADDRESS) = balanceOf(ZERO_ADDRESS) ]_vars

\* a holder's burn has been handled after a mint to that holder
C20_Witness ==
    /\ Len(events) > 1
    /\ status = "ok"
    /\ LastEvent.value > 0
    /\ LastEvent.from \in Holders
    /\ LastEvent.to = ZERO_ADDRESS
    /\ events[1].from = ZERO_ADDRESS /\ events[1].to = LastEvent.from
    /\ events[1].value > 0

\* the saves of a handler call, taken one by one, end in the store the whole
\* handler leaves behind
SavesEndInResult ==
    (inflight # Idle /\ inflight.saves = <<>>)
        => Snapshot(users, observations) = inflight.after

\* C18: metricAt on a snapshot of the store taken at any moment, also between
\* two saves of a handleTransfer in progress, never fails with
\* InvariantViolation and returns the value for the state before the event or
\* the value for the state after it.
C18_SnapshotQueryIsBeforeOrAfter ==
    inflight # Idle
        => \A address \in Accounts, T \in QueryTimes :
               LET seen == metricAt(address, T)
               IN  /\ seen.status # "InvariantViolation"
                   /\ seen \in
                        { getOrComputeCumulativeHODL(inflight.before.users,
                                                     inflight.before.observations,
                                                     address, T),
                          getOrComputeCumulativeHODL(inflight.after.users,
                                                     inflight.after.observations,
                                                     address, T) }

\* ------------------------------------------------------------------------
\* Properties of the stored entities
\* ------------------------------------------------------------------------
\* the hour a timestamp falls into
BucketOf(timestamp) == timestamp - (timestamp % SECONDS_PER_HOUR)

\* the accounts whose observation an applied event updates: its sender, its
\* receiver and the zero address
Touched(e) == {e.from, e.to, ZERO_ADDRESS}

\* C21: a non-zero transfer from a holder to itself leaves the holder's stored
\* balance as it was before the event, and the lastBalance of the holder's
\* observation of the event's hour is that same balance, whether the event
\* creates the observation or updates it.
C21_SelfTransferKeepsBalance ==
    [][ ( /\ LastEvent'.value > 0
          /\ LastEvent'.from = LastEvent'.to
          /\ LastEvent'.from # ZERO_ADDRESS )
            => LET holder == LastEvent'.from
                   id == <<holder, BucketOf(LastEvent'.timestamp)>>
               IN  /\ holder \in DOMAIN users'
                   /\ users'[holder].balance = balanceOf(holder)
                   /\ id \in DOMAIN observations'
                   /\ observations'[id].lastBalance = balanceOf(holder) ]_vars

\* C22: every stored observation's cumulativeHODL is the account's balance x
\* time accumulated up to the observation's lastTimestamp, each interval
\* weighted by the balance held before the event that ends it.
C22_CumulativeIsBalanceTime ==
    \A id \in DOMAIN observations :
        observations[id].cumulativeHODL
            = LedgerHODL(observations[id].user, observations[id].lastTimestamp)

\* C23: a non-zero event at time t updates the observation of exactly its
\* sender (unless a mint), its receiver (unless a burn) and the zero address,
\* also when the supply does not change; afterwards each of them has an
\* observation of the hour of t whose lastTimestamp is t.
C23_UpdatesExactlyTheTouched ==
    [][ (LastEvent'.value > 0 /\ status' = "ok")
          => LET hour == BucketOf(LastEvent'.timestamp)
                 touched == Touched(LastEvent')
             IN  /\ \A a \in touched :
                        /\ <<a, hour>> \in DOMAIN observations'
                        /\ observations'[<<a, hour>>].user = a
                        /\ observations'[<<a, hour>>].lastTimestamp = LastEvent'.timestamp
                 /\ \A id \in DOMAIN observations' :
                        observations'[id].user \notin touched
                            => (id \in DOMAIN observations
                                  /\ observations'[id] = observations[id]) ]_vars

\* after a mint, a transfer between two holders at half past the hour has
\* been handled: the supply did not change and the zero address has an
\* observation with the transfer's timestamp
C23_Witness ==
    /\ Len(events) > 1
    /\ status = "ok"
    /\ events[1].value > 0 /\ events[1].from = ZERO_ADDRESS
    /\ events[1].to = LastEvent.from
    /\ LastEvent.value > 0
    /\ LastEvent.from \in Holders /\ LastEvent.to \in Holders
    /\ LastEvent.from # LastEvent.to
    /\ LastEvent.timestamp # BucketOf(LastEvent.timestamp)
    /\ <<ZERO_ADDRESS, BucketOf(LastEvent.timestamp)>> \in DOMAIN observations

\* an event the handler applied: non-zero, and not from the zero address to itself
AppliedIn(address, hour) ==
    \E i \in 1..Len(events) :
        /\ Moves(events[i])
        /\ BucketOf(events[i].timestamp) = hour
        /\ address \in Touched(events[i])

\* C24: an observation is stored for (account, hour) exactly when an applied
\* non-zero event with its timestamp in that hour touched the account, and
\* there is at most one observation per account and hour.
C24_ObservationIffTouched ==
    /\ \A address \in Accounts, hour \in QueryTimes :
           <<address, hour>> \in DOMAIN observations <=> AppliedIn(address, hour)
    /\ \A id \in DOMAIN observations :
           id = <<observations[id].user, BucketOf(observations[id].lastTimestamp)>>

\* a holder named only by a zero event has no observation in a store that
\* holds the observations of a mint
C24_Witness ==
    /\ balanceOf(ZERO_ADDRESS) > 0
    /\ observations # EmptyStore
    /\ \E i \in 1..Len(events) :
           /\ events[i].value = 0
           /\ events[i].to \in Holders
           /\ ObservationsOf(observations, events[i].to) = {}

\* C25: an event that touches an account with an observation of the event's
\* hour updates that observation in place: the account gets no new
\* observation, its observationCount and lastHourTimestamp stay, and so do
\* the observation's previousHourTimestamp and nextHourTimestamp.
C25_UpdateInPlace ==
    [][ (LastEvent'.value > 0 /\ status' = "ok")
          => \A a \in Touched(LastEvent') :
                 LET id == <<a, BucketOf(LastEvent'.timestamp)>>
                 IN  id \in DOMAIN observations
                       => /\ ObservationsOf(observations', a) = ObservationsOf(observations, a)
                          /\ users'[a].observationCount = users[a].observationCount
                          /\ users'[a].lastHourTimestamp = users[a].lastHourTimestamp
                          /\ observations'[id].previousHourTimestamp
                                 = observations[id].previousHourTimestamp
                          /\ observations'[id].nextHourTimestamp
                                 = observations[id].nextHourTimestamp ]_vars

\* a holder received twice in the hour after its first observation
C25_Witness ==
    /\ Len(events) > 1
    /\ status = "ok"
    /\ LastEvent.value > 0 /\ events[Len(events) - 1].value > 0
    /\ LastEvent.to \in Holders
    /\ events[Len(events) - 1].to = LastEvent.to
    /\ events[Len(events) - 1].timestamp < LastEvent.timestamp
    /\ BucketOf(events[Len(events) - 1].timestamp) = BucketOf(LastEvent.timestamp)
    /\ users[LastEvent.to].observationCount = 1

\* the observation the reader reaches over previousHourTimestamp, NULL if none
followPrevious(O, observation) ==
    Load(O, getObservationId(observation.user, observation.previousHourTimestamp))

\* along the chain of every account cumulativeHODL does not decrease
ChainIsMonotone ==
    \A id \in DOMAIN observations :
        LET previousObservation == followPrevious(observations, observations[id])
        IN  (previousObservation # NULL /\ previousObservation.id # id)
              => observations[id].cumulativeHODL >= previousObservation.cumulativeHODL

\* C26: cumulativeHODL is non-decreasing along every account's chain of
\* observations, and no observation's cumulativeHODL decreases when the
\* observation is updated in place.
C26_CumulativeNonDecreasing ==
    /\ []ChainIsMonotone
    /\ [][ \A id \in DOMAIN observations :
               /\ id \in DOMAIN observations'
               /\ observations'[id].cumulativeHODL >= observations[id].cumulativeHODL ]_vars

\* the observation reached over nextHourTimestamp, NULL if none: a
\* nextHourTimestamp of 0 is taken for no link
followNext(O, observation) ==
    IF observation.nextHourTimestamp > 0
    THEN Load(O, getObservationId(observation.user, observation.nextHourTimestamp))
    ELSE NULL

\* the hours of the observations stored for an address
HoursOf(O, address) == {id[2] : id \in ObservationsOf(O, address)}

\* C27: every account's chain of observations is strictly increasing in hour
\* and has no cycle: the observation reached over previousHourTimestamp is of
\* a strictly smaller hour, every observation but the account's first has
\* one, the observation reached over nextHourTimestamp is of a strictly
\* larger hour, and no observation, that of hour 0 included, links to itself.
C27_ChainStrictlyIncreasing ==
    \A id \in DOMAIN observations :
        LET observation == observations[id]
            previousObservation == followPrevious(observations, observation)
            nextObservation == followNext(observations, observation)
        IN  /\ previousObservation # NULL => previousObservation.id[2] < id[2]
            /\ nextObservation # NULL => nextObservation.id[2] > id[2]
            /\ (\E hour \in HoursOf(observations, observation.user) : hour < id[2])
                   => previousObservation # NULL

\* the largest and the smallest of a non-empty set of hours
MaxOf(hours) == CHOOSE h \in hours : \A other \in hours : other <= h
MinOf(hours) == CHOOSE h \in hours : \A other \in hours : other >= h

\* C28: links go both ways: of two observations of an account that follow one
\* another in time, the later's previousHourTimestamp is the earlier's hour
\* and the earlier's nextHourTimestamp is the later's hour; the first has
\* previousHourTimestamp 0, the latest nextHourTimestamp 0, and every link
\* other than 0 names a stored observation of the same account.
C28_LinksBidirectional ==
    \A address \in Accounts :
        LET hours == HoursOf(observations, address)
        IN  \A hour \in hours :
                LET observation == observations[<<address, hour>>]
                    earlier == {h \in hours : h < hour}
                    later == {h \in hours : h > hour}
                IN  /\ observation.user = address
                    /\ observation.previousHourTimestamp
                           = (IF earlier = {} THEN 0 ELSE MaxOf(earlier))
                    /\ observation.nextHourTimestamp
                           = (IF later = {} THEN 0 ELSE MinOf(later))

\* a holder has a chain of three observations
C28_Witness ==
    \E address \in Holders :
        /\ Cardinality(HoursOf(observations, address)) = 3
        /\ observations[<<address, SECONDS_PER_HOUR>>].previousHourTimestamp = 0
        /\ observations[<<address, SECONDS_PER_HOUR>>].nextHourTimestamp > SECONDS_PER_HOUR

\* every account's observationCount is the number of its stored observations
CountIsNumberStored ==
    /\ \A address \in DOMAIN users :
           users[address].observationCount
               = Cardinality(ObservationsOf(observations, address))
    /\ \A id \in DOMAIN observations : observations[id].user \in DOMAIN users

\* C29: every account's observationCount equals the number of observations
\* stored for it, and no User and no HourObservation that was once stored is
\* missing later.
C29_CountMatchesAndNothingDeleted ==
    /\ []CountIsNumberStored
    /\ [][ /\ DOMAIN users \subseteq DOMAIN users'
           /\ DOMAIN observations \subseteq DOMAIN observations' ]_vars

\* a holder's transfer to itself has created the second of its observations
C29_Witness ==
    /\ Len(events) > 1
    /\ status = "ok"
    /\ LastEvent.from = LastEvent.to
    /\ LastEvent.from \in Holders
    /\ users[LastEvent.from].observationCount = 2
    /\ events[Len(events) - 1].timestamp < BucketOf(LastEvent.timestamp)

\* the hour of the last applied event that touched the address, 0 if none did
RECURSIVE LastTouchedHour(_, _)
LastTouchedHour(address, n) ==
    IF n = 0 THEN 0
    ELSE IF Moves(events[n]) /\ address \in Touched(events[n])
    THEN BucketOf(events[n].timestamp)
    ELSE LastTouchedHour(address, n - 1)

\* C30: every account's lastHourTimestamp is the hour of the observation
\* created or updated last, which is the largest hour among its observations,
\* and 0 if it has none.
C30_LastHourIsLatest ==
    \A address \in DOMAIN users :
        LET hours == HoursOf(observations, address)
        IN  /\ users[address].lastHourTimestamp
                   = (IF hours = {} THEN 0 ELSE MaxOf(hours))
            /\ users[address].lastHourTimestamp
                   = LastTouchedHour(address, Len(events))

\* a holder's observation of a later hour has been updated in place
C30_Witness ==
    /\ Len(events) > 2
    /\ status = "ok"
    /\ LastEvent.to \in Holders
    /\ events[Len(events) - 1].to = LastEvent.to
    /\ events[Len(events) - 1].timestamp = LastEvent.timestamp
    /\ users[LastEvent.to].observationCount = 2
    /\ users[LastEvent.to].lastHourTimestamp = BucketOf(LastEvent.timestamp)

\* C31: every observation's lastTimestamp lies within the observation's own
\* hour: hour <= lastTimestamp < hour + SECONDS_PER_HOUR, the hour being a
\* multiple of SECONDS_PER_HOUR.
C31_LastTimestampWithinHour ==
    \A id \in DOMAIN observations :
        /\ id[2] % SECONDS_PER_HOUR = 0
        /\ id[2] <= observations[id].lastTimestamp
        /\ observations[id].lastTimestamp < id[2] + SECONDS_PER_HOUR

\* an observation of hour 0 has been updated in place at half past, and the
\* same account has an observation of a later hour
C31_Witness ==
    \E address \in Holders :
        /\ <<address, 0>> \in DOMAIN observations
        /\ observations[<<address, 0>>].lastTimestamp = TimeStep
        /\ observations[<<address, 0>>].nextHourTimestamp > 0
        /\ events[1].timestamp = 0 /\ events[1].value > 0 /\ events[1].to = address

\* C32: every observation's lastBalance is the account's balance right after
\* the last event that updated the observation; the lastBalance of an
\* account's latest observation is the account's stored balance.
C32_LastBalanceIsBalance ==
    /\ \A id \in DOMAIN observations :
           observations[id].lastBalance
               = LedgerBalanceAt(observations[id].user, observations[id].lastTimestamp)
    /\ \A address \in DOMAIN users :
           LET hours == HoursOf(observations, address)
           IN  hours # {}
                 => observations[<<address, MaxOf(hours)>>].lastBalance
                        = users[address].balance

\* C33: one call of the handler changes only the User and the observations
\* of the event's sender, its receiver and the zero address: the User entity
\* and every observation of any other account are as before.
C33_OthersUnchanged ==
    [][ \A address \in Accounts \ Touched(LastEvent') :
            /\ Load(users', address) = Load(users, address)
            /\ ObservationsOf(observations', address) = ObservationsOf(observations, address)
            /\ \A id \in ObservationsOf(observations, address) :
                   observations'[id] = observations[id] ]_vars

\* a mint to one holder has been handled in the hour in which the other
\* holder got its observation
C33_Witness ==
    /\ Len(events) > 1
    /\ status = "ok"
    /\ LastEvent.from = ZERO_ADDRESS /\ LastEvent.to \in Holders
    /\ LastEvent.value > 0
    /\ events[1].value > 0
    /\ events[1].to \in Holders \ {LastEvent.to}
    /\ BucketOf(events[1].timestamp) = BucketOf(LastEvent.timestamp)
    /\ ObservationsOf(observations, events[1].to) # {}

\* the timestamp before every event: a walk asked for it goes down the whole chain
BeforeAll == 0 - 1

\* C34: the back-walk never meets a missing observation: every hour reached
\* from an account's lastHourTimestamp over previousHourTimestamp names a
\* stored observation, and metricAt with an aligned timestamp never fails
\* with InvariantViolation.
C34_WalkMeetsNoMissingObservation ==
    \A address \in DOMAIN users :
        /\ walkBack(observations, address, users[address].lastHourTimestamp,
                    BeforeAll).status = "ok"
        /\ \A T \in QueryTimes : metricAt(address, T).status = "ok"

\* an account with observations of three hours is walked from the last to an
\* answer at the first
C34_Witness ==
    \E address \in Holders :
        /\ Cardinality(HoursOf(observations, address)) = 3
        /\ users[address].lastHourTimestamp = 2 * SECONDS_PER_HOUR
        /\ <<address, 0>> \in DOMAIN observations

\* no hour occurs twice in the sequence
NoRepeat(visits) ==
    \A i \in 1..Len(visits), j \in 1..Len(visits) : visits[i] = visits[j] => i = j

\* C35: every metricAt call terminates: its back-walk visits every
\* observation of the account at most once and so takes at most
\* observationCount iterations.
C35_WalkIsBounded ==
    \A address \in DOMAIN users, T \in QueryTimes :
        LET visits == getOrComputeCumulativeHODLVisits(users, observations, address, T)
        IN  /\ Len(visits) <= users[address].observationCount
            /\ NoRepeat(visits)

\* a walk of two iterations: an account with observations of the hours
\* 3600 and 7200 only is asked about hour 0
C35_Witness ==
    \E address \in Holders :
        /\ HoursOf(observations, address) = {SECONDS_PER_HOUR, 2 * SECONDS_PER_HOUR}
        /\ Len(getOrComputeCumulativeHODLVisits(users, observations, address, 0)) = 2

\* C36: the zero-value check comes before the mint-and-burn check: an event
\* from the zero address to itself with value 0 returns without error and
\* leaves the store as it is; with a value above 0 the handler throws.
C36_ZeroCheckComesFirst ==
    [][ (LastEvent'.from = ZERO_ADDRESS /\ LastEvent'.to = ZERO_ADDRESS)
          => /\ LastEvent'.value = 0
                  => (status' = "ok" /\ users' = users /\ observations' = observations)
             /\ LastEvent'.value > 0 => status' = "InvariantViolation" ]_vars

\* right after the handler threw on an event from the zero address to
\* itself, the same event with value 0 returned normally
C36_Witness ==
    /\ Len(events) > 1
    /\ status = "ok"
    /\ LastEvent.from = ZERO_ADDRESS /\ LastEvent.to = ZERO_ADDRESS
    /\ LastEvent.value = 0
    /\ events[Len(events) - 1].from = ZERO_ADDRESS
    /\ events[Len(events) - 1].to = ZERO_ADDRESS
    /\ events[Len(events) - 1].value > 0
    /\ ZERO_ADDRESS \in DOMAIN users

\* C37: for an aligned T, once an event with timestamp >= T has been applied,
\* no further event changes the value of metricAt(account, T), for any
\* account.
C37_HistoryIsFinal ==
    [][ \A T \in QueryTimes :
            (\E i \in 1..Len(events) : Moves(events[i]) /\ events[i].timestamp >= T)
              => \A address \in Accounts :
                     metricAt(address, T)' = metricAt(address, T) ]_vars

\* C38: two non-zero events of one timestamp, each with from # to, leave the
\* same store in either order: the same balances and, for every account, the
\* same observations with the same cumulativeHODL, lastTimestamp, lastBalance
\* and links.
C38_EqualTimestampsCommute ==
    [][ Len(events') = Len(events) + 2
          => LET e1 == events'[Len(events) + 1]
                 e2 == events'[Len(events) + 2]
             IN  \A first \in {handleTransfer(users, observations,
                                              e2.from, e2.to, e2.value, e2.timestamp)} :
                 \A second \in {handleTransfer(first.users, first.observations,
                                               e1.from, e1.to, e1.value, e1.timestamp)} :
                     /\ users' = second.users
                     /\ observations' = second.observations ]_vars

\* a mint to a holder and a transfer out of that holder were handled at one
\* timestamp, later than the holder's earlier observation
C38_Witness ==
    /\ Len(events) = 3
    /\ status = "ok"
    /\ events[1].value > 0 /\ events[1].to \in Holders
    /\ events[1].timestamp < events[2].timestamp
    /\ events[2].timestamp = events[3].timestamp
    /\ events[2].from = ZERO_ADDRESS /\ events[2].to = events[1].to
    /\ events[3].from = events[1].to /\ events[3].to \in Holders

====
